---------------------------- MODULE Spec2Model ----------------------------
(***************************************************************************)
(* A model of slife.py: the sparse-grid slime-mold simulation.             *)
(*                                                                         *)
(* Numbers.  Every number the program computes with is a Python float      *)
(* (IEEE-754 binary64) or a small Python int that is converted to one as   *)
(* soon as it meets a float.  The model computes with binary64 values      *)
(* directly: a number is a record [s, m, e] of value s * m * 2^e, where m  *)
(* is a 53-bit natural number (kept as a sequence of 15-bit limbs, least   *)
(* significant first, because one machine word of the checker cannot hold  *)
(* it), and every operation rounds to nearest, ties to even, as the        *)
(* hardware does.  Zero is [s |-> 0, m |-> <<>>, e |-> 0]; the sign of a   *)
(* zero, infinities, NaN and subnormals are left out: no value of the      *)
(* bounded runs comes near them, and -0.0 == 0 in every comparison the     *)
(* program makes.                                                          *)
(***************************************************************************)
EXTENDS Integers, Sequences, FiniteSets, TLC

\* ------------------------------------------------------------------------
\* Natural numbers of any size: sequences of limbs, least significant first,
\* with no zero limb at the most significant end.  <<>> is zero.

LimbBits == 15

Prec == 53

Base == 2 ^ LimbBits

RECURSIVE BNorm(_)
BNorm(a) ==
    IF a = <<>> THEN <<>>
    ELSE IF a[Len(a)] = 0 THEN BNorm(SubSeq(a, 1, Len(a) - 1))
    ELSE a

RECURSIVE BFromNat(_)
BFromNat(n) ==
    IF n = 0 THEN <<>> ELSE <<n % Base>> \o BFromNat(n \div Base)

Limb(a, i) == IF i <= Len(a) THEN a[i] ELSE 0

BMax(x, y) == IF x >= y THEN x ELSE y

RECURSIVE BAddC(_, _, _, _)
BAddC(a, b, i, c) ==
    IF i > BMax(Len(a), Len(b))
    THEN (IF c = 0 THEN <<>> ELSE <<c>>)
    ELSE LET t == Limb(a, i) + Limb(b, i) + c
         IN  <<t % Base>> \o BAddC(a, b, i + 1, t \div Base)

BAdd(a, b) == BAddC(a, b, 1, 0)

\* a - b for a >= b
RECURSIVE BSubC(_, _, _, _)
BSubC(a, b, i, c) ==
    IF i > Len(a) THEN <<>>
    ELSE LET t == Limb(a, i) - Limb(b, i) - c
         IN  IF t < 0 THEN <<t + Base>> \o BSubC(a, b, i + 1, 1)
             ELSE <<t>> \o BSubC(a, b, i + 1, 0)

BSub(a, b) == BNorm(BSubC(a, b, 1, 0))

\* -1, 0, 1 as a < b, a = b, a > b
RECURSIVE BCmpAt(_, _, _)
BCmpAt(a, b, i) ==
    IF i = 0 THEN 0
    ELSE IF a[i] < b[i] THEN -1
    ELSE IF a[i] > b[i] THEN 1
    ELSE BCmpAt(a, b, i - 1)

BCmp(a, b) ==
    IF Len(a) < Len(b) THEN -1
    ELSE IF Len(a) > Len(b) THEN 1
    ELSE BCmpAt(a, b, Len(a))

\* a * d for one limb d
RECURSIVE BMulLimbC(_, _, _, _)
BMulLimbC(a, d, i, c) ==
    IF i > Len(a)
    THEN (IF c = 0 THEN <<>> ELSE <<c>>)
    ELSE LET t == a[i] * d + c
         IN  <<t % Base>> \o BMulLimbC(a, d, i + 1, t \div Base)

BMulLimb(a, d) == IF d = 0 THEN <<>> ELSE BMulLimbC(a, d, 1, 0)

Zeros(k) == [i \in 1..k |-> 0]

RECURSIVE BMulAt(_, _, _)
BMulAt(a, b, j) ==
    IF j > Len(b) THEN <<>>
    ELSE LET row == IF b[j] = 0 \/ a = <<>> THEN <<>>
                    ELSE Zeros(j - 1) \o BMulLimb(a, b[j])
         IN  BAdd(row, BMulAt(a, b, j + 1))

BMul(a, b) == BNorm(BMulAt(a, b, 1))

\* a * 2^s
BShl(a, s) ==
    IF a = <<>> THEN <<>>
    ELSE Zeros(s \div LimbBits) \o BMulLimb(a, 2 ^ (s % LimbBits))

\* floor(a / 2^s)
BShr(a, s) ==
    LET k == s \div LimbBits
        r == s % LimbBits
        d == IF k >= Len(a) THEN <<>> ELSE SubSeq(a, k + 1, Len(a))
    IN  BNorm([i \in 1..Len(d) |->
                 (d[i] \div (2 ^ r)) + (Limb(d, i + 1) % (2 ^ r)) * (2 ^ (LimbBits - r))])

RECURSIVE NatBits(_)
NatBits(n) == IF n = 0 THEN 0 ELSE 1 + NatBits(n \div 2)

BBitLen(a) ==
    IF a = <<>> THEN 0 ELSE LimbBits * (Len(a) - 1) + NatBits(a[Len(a)])

\* bit i of a, bit 0 the least significant
BBit(a, i) == (Limb(a, i \div LimbBits + 1) \div (2 ^ (i % LimbBits))) % 2

BOdd(a) == a # <<>> /\ a[1] % 2 = 1

\* One step of binary long division by b: bit i of a is brought down into the
\* remainder qr[2], and the quotient qr[1] gets its next bit.
BDivBit(a, b, i, qr) ==
    LET Take(q2, r2) ==
            IF BCmp(r2, b) >= 0
            THEN <<BAdd(q2, <<1>>), BSub(r2, b)>>
            ELSE <<q2, r2>>
    IN  Take(BShl(qr[1], 1), BAdd(BShl(qr[2], 1), BFromNat(BBit(a, i))))

\* The steps for bits hi down to lo, in that order.  The range is halved, and
\* the first half's result is looked at before the second half starts, so that
\* the evaluation stays shallow.
RECURSIVE BDivBits(_, _, _, _, _)
BDivBits(a, b, hi, lo, qr) ==
    IF hi < lo THEN qr
    ELSE IF hi = lo THEN BDivBit(a, b, hi, qr)
    ELSE LET mid   == (hi + lo + 1) \div 2
             first == BDivBits(a, b, hi, mid, qr)
         IN  IF Len(first[1]) + Len(first[2]) >= 0
             THEN BDivBits(a, b, mid - 1, lo, first)
             ELSE first

\* <<floor(a / b), a mod b>> for b > 0
BDivMod(a, b) == BDivBits(a, b, BBitLen(a) - 1, 0, <<<<>>, <<>>>>)

\* ------------------------------------------------------------------------
\* binary64 values

FZero == [s |-> 0, m |-> <<>>, e |-> 0]

\* the binary64 nearest to sgn * p * 2^e (p > 0), ties to even
FRound(sgn, p, e) ==
    LET Pack(q, e2) ==
            IF BBitLen(q) > Prec
            THEN [s |-> sgn, m |-> BShr(q, 1), e |-> e2 + 1]
            ELSE [s |-> sgn, m |-> q, e |-> e2]
        \* c compares what was cut off with half a unit of q's last place
        Up(q, e2, c) ==
            Pack(IF c > 0 \/ (c = 0 /\ BOdd(q)) THEN BAdd(q, <<1>>) ELSE q, e2)
        Cut(sh, q) ==
            Up(q, e + sh, BCmp(BSub(p, BShl(q, sh)), BShl(<<1>>, sh - 1)))
        To(len) ==
            IF len <= Prec
            THEN [s |-> sgn, m |-> BShl(p, Prec - len), e |-> e - (Prec - len)]
            ELSE Cut(len - Prec, BShr(p, len - Prec))
    IN  IF p = <<>> \/ sgn = 0 THEN FZero ELSE To(BBitLen(p))

Sgn(n) == IF n > 0 THEN 1 ELSE IF n < 0 THEN -1 ELSE 0

Abs(n) == IF n < 0 THEN -n ELSE n

\* float(n) for a Python int n
FromInt(n) == FRound(Sgn(n), BFromNat(Abs(n)), 0)

FNeg(x) == [x EXCEPT !.s = -x.s]

\* -1, 0, 1 as |x| < |y|, |x| = |y|, |x| > |y|, for x, y # 0
FCmpMag(x, y) ==
    IF x.e = y.e THEN BCmp(x.m, y.m)
    ELSE IF x.e > y.e THEN 1 ELSE -1

\* -1, 0, 1 as x < y, x = y, x > y
FCmp(x, y) ==
    IF x.s # y.s THEN (IF x.s < y.s THEN -1 ELSE 1)
    ELSE IF x.s = 0 THEN 0
    ELSE x.s * FCmpMag(x, y)

FAdd(x, y) ==
    LET Aligned(mx, my, e, c) ==
            FRound(IF x.s = y.s \/ c > 0 THEN x.s ELSE IF c < 0 THEN y.s ELSE 0,
                   IF x.s = y.s THEN BAdd(mx, my)
                   ELSE IF c > 0 THEN BSub(mx, my)
                   ELSE IF c < 0 THEN BSub(my, mx)
                   ELSE <<>>,
                   e)
        Shifted(mx, my, e) == Aligned(mx, my, e, BCmp(mx, my))
        At(e) == Shifted(BShl(x.m, x.e - e), BShl(y.m, y.e - e), e)
    IN  IF x.s = 0 THEN y
        ELSE IF y.s = 0 THEN x
        ELSE At(IF x.e <= y.e THEN x.e ELSE y.e)

FSub(x, y) == FAdd(x, FNeg(y))

FMul(x, y) ==
    IF x.s = 0 \/ y.s = 0 THEN FZero
    ELSE FRound(x.s * y.s, BMul(x.m, y.m), x.e + y.e)

\* <<floor(a / d), a mod d>> for one limb d > 0: the limbs a[1..i] are divided
\* with rem carried in from the limbs above them
RECURSIVE BDivLimbAt(_, _, _, _)
BDivLimbAt(a, d, i, rem) ==
    IF i = 0 THEN <<<<>>, rem>>
    ELSE LET cur  == rem * Base + a[i]
             rest == BDivLimbAt(a, d, i - 1, cur % d)
         IN  <<Append(rest[1], cur \div d), rest[2]>>

BDivLimb(a, d) ==
    LET qr == BDivLimbAt(a, d, Len(a), 0)
    IN  <<BNorm(qr[1]), qr[2]>>

\* the number of zero bits at the low end of a > 0
RECURSIVE NatLowZeros(_)
NatLowZeros(n) == IF n % 2 = 1 THEN 0 ELSE 1 + NatLowZeros(n \div 2)

RECURSIVE BLowZerosAt(_, _)
BLowZerosAt(a, i) ==
    IF a[i] = 0 THEN LimbBits + BLowZerosAt(a, i + 1) ELSE NatLowZeros(a[i])

BLowZeros(a) == BLowZerosAt(a, 1)

\* x / y for y # 0.  y's significand is d * 2^k with d odd; the quotient of
\* x's significand by d is taken to at least 55 bits, with one more bit that
\* says whether anything was left over, and rounded.  (A d of one limb is
\* divided by limb by limb, any other bit by bit: the quotient is the same.)
FDiv(x, y) ==
    LET Pack(qr, e) ==
            FRound(x.s * y.s,
                   BAdd(BShl(qr[1], 1), IF qr[2] = 0 THEN <<>> ELSE <<1>>), e)
        Long(g) == <<g[1], IF g[2] = <<>> THEN 0 ELSE 1>>
        Quot(a, d) ==
            IF Len(d) = 1 THEN BDivLimb(a, d[1]) ELSE Long(BDivMod(a, d))
        Odd(k, d, sh) == Pack(Quot(BShl(x.m, sh), d), x.e - y.e - k - sh - 1)
        Low(k, d) == Odd(k, d, IF Len(d) = 1 THEN LimbBits + 3 ELSE Prec + 3)
        By(k) == Low(k, BShr(y.m, k))
    IN  IF x.s = 0 THEN FZero ELSE By(BLowZeros(y.m))

\* ------------------------------------------------------------------------
\* CONFIG (the keys the core reads)

initial_cells == 100

food_capacity == 5

\* the literal 0.1: the binary64 nearest to 1/10, 0x1.999999999999ap-4
food_consumption_rate == [s |-> 1, m |-> <<6554, 13107, 26214, 204>>, e |-> -56]

camp_decay == [s |-> 1, m |-> <<6554, 13107, 26214, 204>>, e |-> -56]

\* the literal 1.5
amplification_factor == [s |-> 1, m |-> <<0, 0, 0, 192>>, e |-> -52]

\* the literals 1 and 1.0 of the arithmetic, and the literal 0.25
FOne == [s |-> 1, m |-> <<0, 0, 0, 128>>, e |-> -52]

Quarter == [s |-> 1, m |-> <<0, 0, 0, 128>>, e |-> -54]

\* ------------------------------------------------------------------------
\* Objects.  A Python dict is an object: two names may hold the same dict, and
\* dict.copy() makes a new dict that holds the same value objects.  The heap
\* hp = [cells, dicts] holds both kinds of object by identity:
\*   hp.cells[id]  a site state {"mold", "food", "camp", "refractory"}
\*   hp.dicts[id]  a grid: [order |-> the keys in insertion order,
\*                          at    |-> key -> id of the site state held there]

NoKey == <<>>

NoDict == 0

ZeroSite == [mold |-> FZero, food |-> FZero, camp |-> FZero, refractory |-> FZero]

Fields == {"mold", "food", "camp", "refractory"}

EmptyHeap == [cells |-> <<>>, dicts |-> <<>>]

Keys(hp, g) == DOMAIN hp.dicts[g].at

Order(hp, g) == hp.dicts[g].order

\* grid[coord] for coord in grid
SiteOf(hp, g, coord) == hp.cells[hp.dicts[g].at[coord]]

\* the value a grid has: insertion order, and the state at each key
Deref(hp, g) ==
    [order |-> Order(hp, g),
     site  |-> [c \in Keys(hp, g) |-> SiteOf(hp, g, c)]]

\* grid[coord] = <a new dict holding site>
DictSetNew(hp, g, coord, site) ==
    LET id == Len(hp.cells) + 1
        d  == hp.dicts[g]
    IN  [cells |-> Append(hp.cells, site),
         dicts |-> [hp.dicts EXCEPT ![g] =
                       [order |-> IF coord \in DOMAIN d.at THEN d.order
                                  ELSE Append(d.order, coord),
                        at    |-> [c \in (DOMAIN d.at) \cup {coord} |->
                                     IF c = coord THEN id ELSE d.at[c]]]]]

\* a new empty dict; its id is Len(hp.dicts) of the result
NewDict(hp) ==
    [hp EXCEPT !.dicts = Append(@, [order |-> <<>>, at |-> <<>>])]

\* the concatenation of seqs[lo..hi]
RECURSIVE Concat(_, _, _)
Concat(seqs, lo, hi) ==
    IF lo > hi THEN <<>>
    ELSE IF lo = hi THEN seqs[lo]
    ELSE LET mid == (lo + hi) \div 2
         IN  Concat(seqs, lo, mid) \o Concat(seqs, mid + 1, hi)

\* ------------------------------------------------------------------------
\* GridUtils

neighbors(coord) ==
    LET x == coord[1]
        y == coord[2]
    IN  << <<x - 1, y>>, <<x + 1, y>>, <<x, y - 1>>, <<x, y + 1>> >>

\* all(v == 0 for v in state.values())
AllZero(site) == \A f \in Fields : site[f].s = 0

prune_empty_sites(hp, g) ==
    LET d == hp.dicts[g]
        keys_to_delete == {c \in DOMAIN d.at : AllZero(hp.cells[d.at[c]])}
        Kept(c) == c \notin keys_to_delete
    IN  [hp EXCEPT !.dicts[g] =
            [order |-> SelectSeq(d.order, Kept),
             at    |-> [c \in (DOMAIN d.at) \ keys_to_delete |-> d.at[c]]]]

\* new_cells: for each key in order, its neighbours that are not keys; a cell
\* that two keys share is listed twice
ExpandNewCells(hp, g) ==
    LET d == hp.dicts[g]
        Missing(c) == c \notin DOMAIN d.at
    IN  Concat([i \in 1..Len(d.order) |-> SelectSeq(neighbors(d.order[i]), Missing)],
               1, Len(d.order))

\* for cell in new_cells[lo..hi]: grid[cell] = {"mold": 0, "food": 0, "camp": 0,
\* "refractory": 0}, a new state object each time
RECURSIVE InsertZeros(_, _, _, _, _)
InsertZeros(hp, g, new_cells, lo, hi) ==
    IF lo > hi THEN hp
    ELSE IF lo = hi THEN DictSetNew(hp, g, new_cells[lo], ZeroSite)
    ELSE LET mid   == (lo + hi) \div 2
             first == InsertZeros(hp, g, new_cells, lo, mid)
         IN  IF Len(first.cells) >= 0
             THEN InsertZeros(first, g, new_cells, mid + 1, hi)
             ELSE first

\* expand_grid as it would be if the loop went on over the cells it adds: the
\* neighbours of the new cells are added too
expand_grid_cascading(hp, g) ==
    LET Insert(h, new_cells) == InsertZeros(h, g, new_cells, 1, Len(new_cells))
        Again(h) == Insert(h, ExpandNewCells(h, g))
    IN  Again(Insert(hp, ExpandNewCells(hp, g)))

expand_grid(hp, g) ==
    LET Insert(new_cells) == InsertZeros(hp, g, new_cells, 1, Len(new_cells))
    IN  Insert(ExpandNewCells(hp, g))

\* ------------------------------------------------------------------------
\* Behaviors.  A behavior works on r = [hp, err, log]: the heap, the key of the
\* KeyError that ended it (NoKey while none has), and the writes made into
\* next_grid so far, in order.

Start(hp, log0) == [hp |-> hp, err |-> NoKey, log |-> log0]

\* next_grid[coord][field] += amount (op "+=") or -= amount (op "-="), made by
\* behavior by while it processes the site src
CellUpdate(r, ng, coord, field, op, amount, by, src) ==
    IF coord \notin Keys(r.hp, ng) THEN [r EXCEPT !.err = coord]
    ELSE [hp  |-> [r.hp EXCEPT !.cells[r.hp.dicts[ng].at[coord]][field] =
                      FAdd(@, IF op = "+=" THEN amount ELSE FNeg(amount))],
          err |-> NoKey,
          log |-> Append(r.log, [by |-> by, src |-> src, dst |-> coord,
                                 field |-> field, op |-> op, amount |-> amount])]

\* the sort key (-camp, mold) of a is less than that of b
RankLess(hp, g, a, b) ==
    LET Less(sa, sb, c) == c < 0 \/ (c = 0 /\ FCmp(sa.mold, sb.mold) < 0)
        Of(sa, sb) == Less(sa, sb, FCmp(FNeg(sa.camp), FNeg(sb.camp)))
    IN  Of(SiteOf(hp, g, a), SiteOf(hp, g, b))

\* sorted() is stable: x, which came later, goes behind every element whose key
\* is not greater
RankInsert(hp, g, sorted, x) ==
    LET At(k) == SubSeq(sorted, 1, k - 1) \o <<x>> \o SubSeq(sorted, k, Len(sorted))
        Before(after) ==
            At(IF after = {} THEN Len(sorted) + 1
               ELSE CHOOSE i \in after : \A j \in after : i <= j)
    IN  Before({i \in 1..Len(sorted) : RankLess(hp, g, x, sorted[i])})

\* sorted(n[1..i], key = ...)
RECURSIVE RankSorted(_, _, _, _)
RankSorted(hp, g, n, i) ==
    IF i = 0 THEN <<>>
    ELSE RankInsert(hp, g, RankSorted(hp, g, n, i - 1), n[i])

\* for coord whose four neighbours are keys of grid
ranked_neighbors(hp, g, coord) == RankSorted(hp, g, neighbors(coord), 4)

\* the neighbour whose lookup grid[neighbor] fails in ranked_neighbors, or NoKey
RankedMissing(hp, g, coord) ==
    LET n   == neighbors(coord)
        bad == {i \in 1..4 : n[i] \notin Keys(hp, g)}
    IN  IF bad = {} THEN NoKey
        ELSE n[CHOOSE i \in bad : \A j \in bad : i <= j]

\* sum(grid[neighbor]["camp"] for neighbor in nbrs[1..i])
RECURSIVE TotalCampTo(_, _, _, _)
TotalCampTo(hp, g, nbrs, i) ==
    IF i = 0 THEN FZero
    ELSE FAdd(TotalCampTo(hp, g, nbrs, i - 1), SiteOf(hp, g, nbrs[i]).camp)

TotalCamp(hp, g, nbrs) == TotalCampTo(hp, g, nbrs, Len(nbrs))

\* MoldWeight as it would be with the signal left out: always the fallback
MoldWeightUniform(hp, g, neighbor, total_camp, n) == FDiv(FOne, FromInt(n))

MoldWeight(hp, g, neighbor, total_camp, n) ==
    IF FCmp(total_camp, FZero) > 0
    THEN FDiv(SiteOf(hp, g, neighbor).camp, total_camp)
    ELSE FDiv(FOne, FromInt(n))

\* for neighbor in nbrs[i..]: next_grid[neighbor]["mold"] += total_mold * weight
RECURSIVE MoldDistribute(_, _, _, _, _, _, _, _)
MoldDistribute(r, g, ng, coord, total_mold, nbrs, total_camp, i) ==
    IF i > Len(nbrs) \/ r.err # NoKey THEN r
    ELSE MoldDistribute(
           CellUpdate(r, ng, nbrs[i], "mold", "+=",
                      FMul(total_mold,
                           MoldWeight(r.hp, g, nbrs[i], total_camp, Len(nbrs))),
                      "mold", coord),
           g, ng, coord, total_mold, nbrs, total_camp, i + 1)

MoldProcessSite(r, g, ng, coord) ==
    LET Given(nbrs) ==
            MoldDistribute(r, g, ng, coord, SiteOf(r.hp, g, coord).mold, nbrs,
                           TotalCamp(r.hp, g, nbrs), 1)
        Ranked(missing) ==
            IF missing # NoKey THEN [r EXCEPT !.err = missing]
            ELSE Given(ranked_neighbors(r.hp, g, coord))
    IN  Ranked(RankedMissing(r.hp, g, coord))

FoodProcessSite(r, g, ng, coord) ==
    LET Food(r1, food_consumed) ==
            IF r1.err # NoKey THEN r1
            ELSE CellUpdate(r1, ng, coord, "food", "-=", food_consumed, "food", coord)
        Camp(food_consumed) ==
            Food(CellUpdate(r, ng, coord, "camp", "+=",
                            FMul(food_consumed, amplification_factor), "food", coord),
                 food_consumed)
    IN  Camp(FMul(food_consumption_rate, SiteOf(r.hp, g, coord).mold))

is_process_site(kind, state) ==
    IF kind = "mold" THEN FCmp(state.mold, FZero) > 0
    ELSE IF kind = "food"
    THEN FCmp(state.mold, FZero) > 0
         /\ FCmp(state.food, food_consumption_rate) >= 0
    ELSE TRUE

process_site(kind, r, g, ng, coord) ==
    IF kind = "mold" THEN MoldProcessSite(r, g, ng, coord)
    ELSE FoodProcessSite(r, g, ng, coord)

\* Behavior.apply for the keys order[lo..hi] of grid
RECURSIVE BehaviorApplyRange(_, _, _, _, _, _, _)
BehaviorApplyRange(kind, r, g, ng, order, lo, hi) ==
    IF lo > hi \/ r.err # NoKey THEN r
    ELSE IF lo = hi
    THEN (IF is_process_site(kind, SiteOf(r.hp, g, order[lo]))
          THEN process_site(kind, r, g, ng, order[lo])
          ELSE r)
    ELSE LET mid   == (lo + hi) \div 2
             first == BehaviorApplyRange(kind, r, g, ng, order, lo, mid)
         IN  IF first.err # NoKey THEN first
             ELSE BehaviorApplyRange(kind, first, g, ng, order, mid + 1, hi)

BehaviorApply(kind, r, g, ng) ==
    BehaviorApplyRange(kind, r, g, ng, Order(r.hp, g), 1, Len(Order(r.hp, g)))

\* new_camp is a dict of numbers, [order, val]:
\* if neighbor not in new_camp: new_camp[neighbor] = 0
\* new_camp[neighbor] += x
NewCampAdd(nc, neighbor, x) ==
    [order |-> IF neighbor \in DOMAIN nc.val THEN nc.order
               ELSE Append(nc.order, neighbor),
     val   |-> [c \in (DOMAIN nc.val) \cup {neighbor} |->
                  IF c = neighbor
                  THEN FAdd(IF neighbor \in DOMAIN nc.val THEN nc.val[neighbor]
                            ELSE FZero, x)
                  ELSE nc.val[c]]]

\* for neighbor in n[1..i]: new_camp[neighbor] += camp * 0.25
RECURSIVE CampShare(_, _, _, _)
CampShare(nc, n, camp, i) ==
    IF i = 0 THEN nc
    ELSE NewCampAdd(CampShare(nc, n, camp, i - 1), n[i], FMul(camp, Quarter))

\* CampSpread as it would be if a site kept its own decayed signal
CampSpreadKeeping(nc, hp, g, coord) ==
    LET Keep(camp) == NewCampAdd(CampShare(nc, neighbors(coord), camp, 4), coord, camp)
    IN  Keep(FMul(SiteOf(hp, g, coord).camp, FSub(FOne, camp_decay)))

CampSpread(nc, hp, g, coord) ==
    CampShare(nc, neighbors(coord),
              FMul(SiteOf(hp, g, coord).camp, FSub(FOne, camp_decay)), 4)

\* the first loop of CampBehavior.apply for the keys order[lo..hi]
RECURSIVE CampAccumulate(_, _, _, _, _, _)
CampAccumulate(nc, hp, g, order, lo, hi) ==
    IF lo > hi THEN nc
    ELSE IF lo = hi THEN CampSpread(nc, hp, g, order[lo])
    ELSE LET mid   == (lo + hi) \div 2
             first == CampAccumulate(nc, hp, g, order, lo, mid)
         IN  IF Len(first.order) >= 0
             THEN CampAccumulate(first, hp, g, order, mid + 1, hi)
             ELSE first

\* the second loop, for new_camp's keys order[lo..hi]
RECURSIVE CampCommit(_, _, _, _, _)
CampCommit(r, ng, nc, lo, hi) ==
    IF lo > hi \/ r.err # NoKey THEN r
    ELSE IF lo = hi
    THEN CellUpdate(r, ng, nc.order[lo], "camp", "+=", nc.val[nc.order[lo]],
                    "camp", NoKey)
    ELSE LET mid   == (lo + hi) \div 2
             first == CampCommit(r, ng, nc, lo, mid)
         IN  IF first.err # NoKey THEN first
             ELSE CampCommit(first, ng, nc, mid + 1, hi)

CampApply(r, g, ng) ==
    LET Commit(new_camp) == CampCommit(r, ng, new_camp, 1, Len(new_camp.order))
    IN  Commit(CampAccumulate([order |-> <<>>, val |-> <<>>], r.hp, g,
                              Order(r.hp, g), 1, Len(Order(r.hp, g))))

\* Simulation.behaviors(), by name
behaviors == <<"mold", "food", "camp">>

Apply(kind, r, g, ng) ==
    IF kind = "camp" THEN CampApply(r, g, ng) ELSE BehaviorApply(kind, r, g, ng)

\* ------------------------------------------------------------------------
\* Simulation

\* for behavior in self.behaviors()[i..]: behavior.apply(current_grid, next_grid);
\* a KeyError ends the loop
RECURSIVE ApplyAll(_, _, _, _)
ApplyAll(r, g, ng, i) ==
    IF i > Len(behaviors) \/ r.err # NoKey THEN r
    ELSE ApplyAll(Apply(behaviors[i], r, g, ng), g, ng, i + 1)

\* next_grid = {coord: {all zero} for coord in self.current_grid}; the new
\* dict's id is Len(.dicts) of the result
BuildNextGrid(hp, cur) ==
    InsertZeros(NewDict(hp), Len(hp.dicts) + 1, Order(hp, cur), 1, Len(Order(hp, cur)))

\* step() with self.current_grid = cur: the heap afterwards, the key of the
\* KeyError that ended it (NoKey when it returned), the writes the behaviors
\* made, and self.current_grid afterwards
step(hp, cur) ==
    LET Swap(r, ng) ==
            IF r.err # NoKey
            THEN [hp |-> r.hp, err |-> r.err, log |-> r.log, grid |-> cur]
            ELSE [hp |-> prune_empty_sites(r.hp, ng), err |-> NoKey,
                  log |-> r.log, grid |-> ng]
        Run(hp1, ng) ==
            Swap(ApplyAll(Start(expand_grid(hp1, cur), <<>>), cur, ng, 1), ng)
    IN  Run(BuildNextGrid(hp, cur), Len(hp.dicts) + 1)

\* DictCopy as it would be without the copy: the snapshot is the live dict
DictAlias(hp, g) == [hp |-> hp, id |-> g]

\* grid.copy(): a new dict with the same keys, holding the same state objects
DictCopy(hp, g) ==
    [hp |-> [hp EXCEPT !.dicts = Append(@, hp.dicts[g])],
     id |-> Len(hp.dicts) + 1]

Site(mold, food, camp) ==
    [mold |-> FromInt(mold), food |-> FromInt(food), camp |-> FromInt(camp),
     refractory |-> FZero]

initialize_grid ==
    DictSetNew(NewDict(EmptyHeap), 1, <<0, 0>>, Site(initial_cells, food_capacity, 0))

\* ------------------------------------------------------------------------
\* Bounds

\* calls of run() and step() made on one Simulation
MaxCalls == 4

\* run(steps) is called with steps in 1..MaxSteps
MaxSteps == 3

\* the signal values of the sites a behavior is tried on are 0..MaxCamp
MaxCamp == 1

\* ------------------------------------------------------------------------
\* State

VARIABLES
    heap,          \* the objects: [cells, dicts]
    current_grid,  \* self.current_grid (the grid a behavior is tried on): a dict id
    history,       \* self.history: a list of dict ids
    next_grid,     \* the next_grid a behavior is tried on, or NoDict
    pc,            \* where the caller is
    steps,         \* the argument of the run() in progress or last ended, 0 for step()
    remaining,     \* iterations run() has still to make
    raised,        \* the key of the KeyError that ended the last call, or NoKey
    log,           \* the writes into next_grid by the last step or the behaviors tried
    calls,         \* calls of run() and step() so far
    nsteps,        \* calls of step() so far, run()'s included
    pre            \* the value of the grid before the last step (as given, in a trial)

vars == <<heap, current_grid, history, next_grid, pc, steps, remaining, raised,
          log, calls, nsteps, pre>>

\* Simulation(): the state after construction
Init ==
    /\ heap = initialize_grid
    /\ current_grid = 1
    /\ history = <<>>
    /\ next_grid = NoDict
    /\ pc = "idle"
    /\ steps = 0
    /\ remaining = 0
    /\ raised = NoKey
    /\ log = <<>>
    /\ calls = 0
    /\ nsteps = 0
    /\ pre = Deref(heap, 1)

\* the caller calls run(n)
CallRun(n) ==
    /\ pc = "idle"
    /\ calls < MaxCalls
    /\ pc' = "run"
    /\ steps' = n
    /\ remaining' = n
    /\ raised' = NoKey
    /\ calls' = calls + 1
    /\ UNCHANGED <<heap, current_grid, history, next_grid, log, nsteps, pre>>

\* run(): the loop test, and self.history.append(self.current_grid.copy())
RunLoop ==
    /\ pc = "run"
    /\ IF remaining > 0
       THEN \E cp \in {DictCopy(heap, current_grid)} :
                /\ heap' = cp.hp
                /\ history' = Append(history, cp.id)
                /\ pc' = "step"
       ELSE /\ pc' = "idle"
            /\ UNCHANGED <<heap, history>>
    /\ UNCHANGED <<current_grid, next_grid, steps, remaining, raised, log, calls,
                   nsteps, pre>>

\* run(): self.step(); a KeyError leaves run()
RunStep ==
    /\ pc = "step"
    /\ \E st \in {step(heap, current_grid)} :
           /\ heap' = st.hp
           /\ current_grid' = st.grid
           /\ raised' = st.err
           /\ log' = st.log
           /\ IF st.err = NoKey
              THEN pc' = "run" /\ remaining' = remaining - 1
              ELSE pc' = "idle" /\ remaining' = remaining
    /\ pre' = Deref(heap, current_grid)
    /\ nsteps' = nsteps + 1
    /\ UNCHANGED <<history, next_grid, steps, calls>>

\* the caller calls step()
CallStep ==
    /\ pc = "idle"
    /\ calls < MaxCalls
    /\ \E st \in {step(heap, current_grid)} :
           /\ heap' = st.hp
           /\ current_grid' = st.grid
           /\ raised' = st.err
           /\ log' = st.log
    /\ pre' = Deref(heap, current_grid)
    /\ nsteps' = nsteps + 1
    /\ calls' = calls + 1
    /\ steps' = 0
    /\ remaining' = 0
    /\ pc' = "idle"
    /\ UNCHANGED <<history, next_grid>>

Next ==
    \/ \E n \in 1..MaxSteps : CallRun(n)
    \/ RunLoop
    \/ RunStep
    \/ CallStep

Spec == Init /\ [][Next]_vars

\* ------------------------------------------------------------------------
\* The operations of one step, one at a time, on small grids.  The grid given
\* holds any of (0, 0) and its four neighbours; next_grid is a grid of zeroed
\* sites that holds every coordinate the behaviors can write into: the
\* coordinates within three moves of (0, 0).

Plus == <<<<0, 0>>>> \o neighbors(<<0, 0>>)

\* the site (0, 0) holds when it is there: the seed site of initialize_grid
CentreSite == Site(initial_cells, food_capacity, 0)

\* the sites a neighbour of (0, 0) holds when it is there: a site with nothing
\* but signal, 0..MaxCamp of it, or a site with mold, food and signal
ArmSites ==
    [i \in 1..(MaxCamp + 2) |->
       IF i <= MaxCamp + 1 THEN Site(0, 0, i - 1)
       ELSE Site(7, food_capacity, MaxCamp)]

\* what is where: pick[i] = 0 when Plus[i] is no key of the grid
Picks ==
    {pick \in [1..5 -> 0..(MaxCamp + 2)] : pick[1] <= 1}

Diamond ==
    LET Near(c) == Abs(c[1]) + Abs(c[2]) <= 3
    IN  SelectSeq([i \in 1..49 |-> <<((i - 1) \div 7) - 3, ((i - 1) % 7) - 3>>], Near)

\* the heap that holds the grid of pick as dict 1 and the zeroed next_grid as
\* dict 2
UnitHeap(pick) ==
    LET Present(i) == pick[i] # 0
        present == SelectSeq(<<1, 2, 3, 4, 5>>, Present)
        n == Len(present)
        grid ==
            [order |-> [j \in 1..n |-> Plus[present[j]]],
             at    |-> [c \in {Plus[present[j]] : j \in 1..n} |->
                          CHOOSE j \in 1..n : Plus[present[j]] = c]]
        zeros ==
            [order |-> Diamond,
             at    |-> [c \in {Diamond[k] : k \in 1..Len(Diamond)} |->
                          n + (CHOOSE k \in 1..Len(Diamond) : Diamond[k] = c)]]
    IN  [cells |-> [j \in 1..n |->
                      IF present[j] = 1 THEN CentreSite
                      ELSE ArmSites[pick[present[j]]]]
                   \o [k \in 1..Len(Diamond) |-> ZeroSite],
         dicts |-> <<grid, zeros>>]

UnitInit ==
    /\ \E pick \in Picks : heap = UnitHeap(pick)
    /\ current_grid = 1
    /\ next_grid = 2
    /\ history = <<>>
    /\ pc = "given"
    /\ steps = 0
    /\ remaining = 0
    /\ raised = NoKey
    /\ log = <<>>
    /\ calls = 0
    /\ nsteps = 0
    /\ pre = Deref(heap, 1)

\* GridUtils.expand_grid(grid)
UExpand ==
    /\ pc = "given"
    /\ heap' = expand_grid(heap, current_grid)
    /\ pc' = "expanded"
    /\ UNCHANGED <<current_grid, history, next_grid, steps, remaining, raised, log,
                   calls, nsteps, pre>>

\* MoldBehavior().apply(grid, next_grid)
UMold ==
    /\ pc = "expanded"
    /\ \E r \in {Apply(behaviors[1], Start(heap, log), current_grid, next_grid)} :
           /\ heap' = r.hp
           /\ raised' = r.err
           /\ log' = r.log
    /\ pc' = "mold"
    /\ UNCHANGED <<current_grid, history, next_grid, steps, remaining, calls, nsteps,
                   pre>>

\* FoodBehavior().apply(grid, next_grid)
UFood ==
    /\ pc = "mold"
    /\ \E r \in {Apply(behaviors[2], Start(heap, log), current_grid, next_grid)} :
           /\ heap' = r.hp
           /\ raised' = r.err
           /\ log' = r.log
    /\ pc' = "food"
    /\ UNCHANGED <<current_grid, history, next_grid, steps, remaining, calls, nsteps,
                   pre>>

\* CampBehavior().apply(grid, next_grid)
UCamp ==
    /\ pc = "food"
    /\ \E r \in {Apply(behaviors[3], Start(heap, log), current_grid, next_grid)} :
           /\ heap' = r.hp
           /\ raised' = r.err
           /\ log' = r.log
    /\ pc' = "camp"
    /\ UNCHANGED <<current_grid, history, next_grid, steps, remaining, calls, nsteps,
                   pre>>

\* GridUtils.prune_empty_sites(next_grid)
UPrune ==
    /\ pc = "camp"
    /\ heap' = prune_empty_sites(heap, next_grid)
    /\ pc' = "pruned"
    /\ UNCHANGED <<current_grid, history, next_grid, steps, remaining, raised, log,
                   calls, nsteps, pre>>

UnitNext ==
    \/ UExpand
    \/ UMold
    \/ UFood
    \/ UCamp
    \/ UPrune

SpecUnit == UnitInit /\ [][UnitNext]_vars

\* ------------------------------------------------------------------------
\* Properties

\* the coordinates the properties look at, and adjacency said without
\* neighbors(): one move apart
Box == {<<x, y>> : x \in -4..4, y \in -4..4}

Adj4(c) == {d \in Box : Abs(d[1] - c[1]) + Abs(d[2] - c[2]) = 1}

\* the site a grid value holds at c; a zeroed site where c is no key
ValueAt(v, c) == IF c \in DOMAIN v.site THEN v.site[c] ELSE ZeroSite

\* the site next_grid holds at c; a zeroed site where c is no key (pruned)
NextAt(c) ==
    IF c \in Keys(heap, next_grid) THEN SiteOf(heap, next_grid, c) ELSE ZeroSite

FAbs(x) == [x EXCEPT !.s = Abs(x.s)]

\* 2^-50: eight units in the last place of 1
Rounding == [s |-> 1, m |-> <<0, 0, 0, 128>>, e |-> -102]

ActiveMold(site) == FCmp(site.mold, FZero) > 0

ActiveFood(site) ==
    FCmp(site.mold, FZero) > 0 /\ FCmp(site.food, food_consumption_rate) >= 0

\* the writes MoldBehavior made while it processed the site c, in order
MoldWrites(c) ==
    LET FromC(w) == w.by = "mold" /\ w.src = c
    IN  SelectSeq(log, FromC)

\* the amounts of ws[1..i] added up in that order
RECURSIVE SumAmounts(_, _)
SumAmounts(ws, i) ==
    IF i = 0 THEN FZero ELSE FAdd(SumAmounts(ws, i - 1), ws[i].amount)

\* the signal around c before the step (the sums of the signal values tried
\* are exact in every order)
SignalAround(c) ==
    FAdd(FAdd(ValueAt(pre, <<c[1] - 1, c[2]>>).camp,
              ValueAt(pre, <<c[1] + 1, c[2]>>).camp),
         FAdd(ValueAt(pre, <<c[1], c[2] - 1>>).camp,
              ValueAt(pre, <<c[1], c[2] + 1>>).camp))

NoSignalAround(c) == \A d \in Adj4(c) : ValueAt(pre, d).camp.s = 0

\* what the site d is to get of the mold of its neighbour c
MoldShare(c, d) ==
    IF NoSignalAround(c) THEN FMul(pre.site[c].mold, Quarter)
    ELSE FMul(pre.site[c].mold, FDiv(ValueAt(pre, d).camp, SignalAround(c)))

\* what FoodBehavior is to add to the signal of c
FoodCamp(c) ==
    IF ActiveFood(ValueAt(pre, c))
    THEN FMul(FMul(food_consumption_rate, ValueAt(pre, c).mold), amplification_factor)
    ELSE FZero

AfterMold == pc \in {"mold", "food", "camp", "pruned"}

AfterCamp == pc \in {"camp", "pruned"}

AfterExpand == pc \in {"expanded", "mold", "food", "camp", "pruned"}

\* a call of step() has ended and no other is under way
AfterStep == nsteps > 0 /\ pc \in {"idle", "run"}

\* C1: no step() ends with a KeyError: every coordinate a behavior writes into
\* is a key of next_grid when the behaviors run.
C1_EveryWriteFindsItsKey == AfterStep => raised = NoKey

\* C2: when run(n), the first call made on a new Simulation, has ended, it has
\* returned without an exception and history holds exactly n snapshots, the
\* first of them the untouched seed grid.
C2_RunKeepsNSnapshots ==
    (calls = 1 /\ steps > 0 /\ pc = "idle") =>
        /\ raised = NoKey
        /\ Len(history) = steps
        /\ Deref(heap, history[1]) = Deref(initialize_grid, 1)

\* the writes FoodBehavior made into the signal of c, in order
FoodCampWrites(c) ==
    LET IntoC(w) == w.by = "food" /\ w.dst = c /\ w.field = "camp"
    IN  SelectSeq(log, IntoC)

\* C3: for every site given with mold > 0 and food >= food_consumption_rate,
\* after the behaviors and the pruning the same coordinate has food equal to
\* the food given minus food_consumption_rate * mold, and what FoodBehavior
\* added to its signal is food_consumption_rate * mold * amplification_factor.
C3_FoodIsWhatWasLeft ==
    pc = "pruned" =>
        \A c \in DOMAIN pre.site :
            ActiveFood(pre.site[c]) =>
                /\ Len(FoodCampWrites(c)) = 1
                /\ FoodCampWrites(c)[1].op = "+="
                /\ FoodCampWrites(c)[1].amount = FoodCamp(c)
                /\ NextAt(c).food =
                       FSub(pre.site[c].food,
                            FMul(food_consumption_rate, pre.site[c].mold))

\* C4: after exactly one step() from the seed grid the four neighbours of
\* (0, 0) each hold mold 25 and camp 0, and (0, 0) holds food -5 and camp 0.
C4_FirstStepFromSeed ==
    (AfterStep /\ nsteps = 1) =>
        LET v == Deref(heap, current_grid)
        IN  /\ raised = NoKey
            /\ \A d \in Adj4(<<0, 0>>) :
                   /\ d \in DOMAIN v.site
                   /\ ValueAt(v, d).mold = FromInt(25)
                   /\ ValueAt(v, d).camp = FZero
            /\ <<0, 0>> \in DOMAIN v.site
            /\ ValueAt(v, <<0, 0>>).food = FromInt(-5)
            /\ ValueAt(v, <<0, 0>>).camp = FZero

\* C5: after a step() no entry of the current grid has all four fields 0.
C5_NoZeroEntryAfterStep ==
    AfterStep =>
        \A c \in Keys(heap, current_grid) : ~AllZero(SiteOf(heap, current_grid, c))

C7_SnapshotsKeepTheirValue ==
    [][\A i \in 1..Len(history) :
           Deref(heap', history[i]) = Deref(heap, history[i])]_vars

\* two snapshots are held, and the live grid the second was copied from has
\* been expanded by a step since
C7_LiveGridMovedOn ==
    /\ Len(history) >= 2
    /\ AfterStep
    /\ Keys(heap, history[1]) # Keys(heap, history[2])
    /\ Keys(heap, history[2]) # Keys(heap, current_grid)

C9_ExpandAddsTheNeighbours ==
    AfterExpand =>
        \E v \in {Deref(heap, current_grid)} :
            /\ DOMAIN v.site =
                   (DOMAIN pre.site) \cup UNION {Adj4(k) : k \in DOMAIN pre.site}
            /\ \A c \in DOMAIN v.site :
                   v.site[c] = IF c \in DOMAIN pre.site THEN pre.site[c] ELSE ZeroSite
            /\ SubSeq(v.order, 1, Len(pre.order)) = pre.order
            /\ Len(v.order) = Cardinality(DOMAIN v.site)

\* a grid of several keys, two of them with a neighbour in common, has been
\* expanded
C9_ExpandedSeveral ==
    /\ pc = "expanded"
    /\ {<<1, 0>>, <<0, 1>>} \subseteq DOMAIN pre.site
    /\ <<1, 1>> \in Keys(heap, current_grid)
    /\ <<0, 0>> \notin DOMAIN pre.site

\* C10: every step() replaces the current grid by a newly constructed grid whose
\* keys include the keys the current grid had before the step.
C10_StepReplacesGrid ==
    [][nsteps' = nsteps + 1 =>
           /\ current_grid' # current_grid
           /\ Keys(heap, current_grid) \subseteq Keys(heap', current_grid')]_vars

=============================================================================
